---- MODULE Spec2Model ----
(***************************************************************************)
(* A model of the ivy functional layer API (ivy/functional/ivy/layers.py), *)
(* the JAX backend's utility reductions, the torch backend's sparse array  *)
(* constructor and the gradients container stub.                           *)
(*                                                                         *)
(* Arrays handed through unchanged are opaque tokens (strings); a backend  *)
(* function is an uninterpreted function of the module it lives in, its    *)
(* name and the positional arguments it receives.                          *)
(***************************************************************************)
EXTENDS Integers, Sequences, FiniteSets

VARIABLES
    framework,  \* the globally configured backend name
    calls,      \* the calls made so far into code outside the function under study
    op,         \* the operation that ran last ("none" before the first)
    args,       \* the parameters that operation was bound to
    ret         \* what it returned (or the error it raised)

vars == <<framework, calls, op, args, ret>>

None == "None"

(***************************************************************************)
(* Bounds.                                                                 *)
(***************************************************************************)
MaxCalls == 2

(***************************************************************************)
(* Backend selection (ivy.framework_handler.current_framework).            *)
(***************************************************************************)
Backends == {"numpy", "jax", "torch", "tensorflow"}

BackendModule(name) == <<"ivy.functional.backends", name>>

\* The module the globally configured backend name maps to.
cur_framework(x) == BackendModule(framework)

\* A call of function fn of module m with positional arguments a, and the
\* value that (uninterpreted) backend function returns for it.
BackendCall(m, fn, a) == [module |-> m, fn |-> fn, args |-> a]

BackendReturn(c) == c.module \o <<c.fn>> \o c.args

Dispatched(c) == [made |-> <<c>>, ret |-> BackendReturn(c)]

(***************************************************************************)
(* Convolutions (layers.py): each forwards to the backend's function of    *)
(* the same name.                                                          *)
(***************************************************************************)
ConvFns == {"conv1d", "conv2d", "depthwise_conv2d", "conv3d"}
ConvTransposeFns == {"conv1d_transpose", "conv2d_transpose", "conv3d_transpose"}

\* A module kept from the first dispatch instead of asked for again.
conv1d_stale(x, filters, strides, padding, data_format, dilations) ==
    Dispatched(BackendCall(
        IF calls = <<>> THEN cur_framework(x) ELSE calls[1].module,
        "conv1d", <<x, filters, strides, padding, data_format, dilations>>))

conv1d(x, filters, strides, padding, data_format, dilations) ==
    Dispatched(BackendCall(cur_framework(x), "conv1d",
        <<x, filters, strides, padding, data_format, dilations>>))

conv1d_transpose(x, filters, strides, padding, output_shape, data_format, dilations) ==
    Dispatched(BackendCall(cur_framework(x), "conv1d_transpose",
        <<x, filters, strides, padding, output_shape, data_format, dilations>>))

conv2d(x, filters, strides, padding, data_format, dilations) ==
    Dispatched(BackendCall(cur_framework(x), "conv2d",
        <<x, filters, strides, padding, data_format, dilations>>))

\* output_shape and data_format handed over in each other's place.
conv2d_transpose_swapped(x, filters, strides, padding, output_shape, data_format, dilations) ==
    Dispatched(BackendCall(cur_framework(x), "conv2d_transpose",
        <<x, filters, strides, padding, data_format, output_shape, dilations>>))

conv2d_transpose(x, filters, strides, padding, output_shape, data_format, dilations) ==
    Dispatched(BackendCall(cur_framework(x), "conv2d_transpose",
        <<x, filters, strides, padding, output_shape, data_format, dilations>>))

depthwise_conv2d(x, filters, strides, padding, data_format, dilations) ==
    Dispatched(BackendCall(cur_framework(x), "depthwise_conv2d",
        <<x, filters, strides, padding, data_format, dilations>>))

conv3d(x, filters, strides, padding, data_format, dilations) ==
    Dispatched(BackendCall(cur_framework(x), "conv3d",
        <<x, filters, strides, padding, data_format, dilations>>))

conv3d_transpose(x, filters, strides, padding, output_shape, data_format, dilations) ==
    Dispatched(BackendCall(cur_framework(x), "conv3d_transpose",
        <<x, filters, strides, padding, output_shape, data_format, dilations>>))

\* The default of data_format in each signature; dilations defaults to 1 and
\* output_shape to None.
DefaultDataFormat(fn) ==
    CASE fn \in {"conv1d", "conv1d_transpose"} -> "NWC"
      [] fn \in {"conv2d", "conv2d_transpose", "depthwise_conv2d"} -> "NHWC"
      [] fn \in {"conv3d", "conv3d_transpose"} -> "NDHWC"

Omitted == "<omitted>"

\* What a caller passes: the four required arguments, and the optional ones
\* given or left out.
ConvCallerArgs ==
    { [x |-> "x0", filters |-> "w0", strides |-> "2", padding |-> "SAME",
       output_shape |-> Omitted, data_format |-> Omitted, dilations |-> Omitted],
      [x |-> "x1", filters |-> "w1", strides |-> "1", padding |-> "VALID",
       output_shape |-> "(8,)", data_format |-> "NCW", dilations |-> "3"] }

\* Python's binding of the call to the signature of fn.
Bind(fn, a) ==
    [x |-> a.x, filters |-> a.filters, strides |-> a.strides, padding |-> a.padding,
     output_shape |-> IF fn \in ConvTransposeFns
                      THEN (IF a.output_shape = Omitted THEN None ELSE a.output_shape)
                      ELSE Omitted,
     data_format |-> IF a.data_format = Omitted THEN DefaultDataFormat(fn) ELSE a.data_format,
     dilations |-> IF a.dilations = Omitted THEN "1" ELSE a.dilations]

Ran(fn, p, r) ==
    /\ Len(calls) < MaxCalls
    /\ calls' = calls \o r.made
    /\ op' = fn
    /\ args' = p
    /\ ret' = r.ret
    /\ UNCHANGED framework

Conv1d ==
    \E a \in ConvCallerArgs :
        LET p == Bind("conv1d", a)
        IN Ran("conv1d", p,
               conv1d(p.x, p.filters, p.strides, p.padding, p.data_format, p.dilations))

Conv1dTranspose ==
    \E a \in ConvCallerArgs :
        LET p == Bind("conv1d_transpose", a)
        IN Ran("conv1d_transpose", p,
               conv1d_transpose(p.x, p.filters, p.strides, p.padding, p.output_shape,
                                p.data_format, p.dilations))

Conv2d ==
    \E a \in ConvCallerArgs :
        LET p == Bind("conv2d", a)
        IN Ran("conv2d", p,
               conv2d(p.x, p.filters, p.strides, p.padding, p.data_format, p.dilations))

Conv2dTranspose ==
    \E a \in ConvCallerArgs :
        LET p == Bind("conv2d_transpose", a)
        IN Ran("conv2d_transpose", p,
               conv2d_transpose(p.x, p.filters, p.strides, p.padding, p.output_shape,
                                p.data_format, p.dilations))

DepthwiseConv2d ==
    \E a \in ConvCallerArgs :
        LET p == Bind("depthwise_conv2d", a)
        IN Ran("depthwise_conv2d", p,
               depthwise_conv2d(p.x, p.filters, p.strides, p.padding, p.data_format,
                                p.dilations))

Conv3d ==
    \E a \in ConvCallerArgs :
        LET p == Bind("conv3d", a)
        IN Ran("conv3d", p,
               conv3d(p.x, p.filters, p.strides, p.padding, p.data_format, p.dilations))

Conv3dTranspose ==
    \E a \in ConvCallerArgs :
        LET p == Bind("conv3d_transpose", a)
        IN Ran("conv3d_transpose", p,
               conv3d_transpose(p.x, p.filters, p.strides, p.padding, p.output_shape,
                                p.data_format, p.dilations))

\* The user selects another backend.
SetFramework ==
    \E b \in Backends \ {framework} :
        /\ framework' = b
        /\ UNCHANGED <<calls, op, args, ret>>

Init ==
    /\ framework \in Backends
    /\ calls = <<>>
    /\ op = "none"
    /\ args = None
    /\ ret = None

Next ==
    \/ SetFramework
    \/ Conv1d
    \/ Conv1dTranspose
    \/ Conv2d
    \/ Conv2dTranspose
    \/ DepthwiseConv2d
    \/ Conv3d
    \/ Conv3dTranspose

Spec == Init /\ [][Next]_vars

(***************************************************************************)
(* C1: every convolution function makes exactly one call, to the function  *)
(* of its own name in the module current_framework(x) returns, with its    *)
(* parameters in the order (x, filters, strides, padding, data_format,     *)
(* dilations) -- the transposes with output_shape after padding -- and     *)
(* returns what that call returns.                                         *)
(***************************************************************************)
ConvPositional(fn, p) ==
    IF fn \in ConvTransposeFns
    THEN <<p.x, p.filters, p.strides, p.padding, p.output_shape, p.data_format, p.dilations>>
    ELSE <<p.x, p.filters, p.strides, p.padding, p.data_format, p.dilations>>

C1_ConvForwardsOnce ==
    [][framework' = framework =>
        /\ op' \in ConvFns \cup ConvTransposeFns
        /\ Len(calls') = Len(calls) + 1
        /\ SubSeq(calls', 1, Len(calls)) = calls
        /\ LET c == calls'[Len(calls')]
           IN /\ c.module = cur_framework(args'.x)
              /\ c.fn = op'
              /\ c.args = ConvPositional(op', args')
              /\ ret' = BackendReturn(c)]_vars

C1_Witness ==
    /\ op = "conv2d_transpose"
    /\ Len(calls) = 1
    /\ calls[1].args = <<"x1", "w1", "1", "VALID", "(8,)", "NCW", "3">>
    /\ ret = BackendReturn(calls[1])

(***************************************************************************)
(* C2: a convolution call reaches the module of the backend configured at  *)
(* the moment of the call; earlier entries of the log are left alone, so   *)
(* a call after a change of backend never reaches the earlier backend.     *)
(***************************************************************************)
C2_DispatchIsCurrent ==
    [][\A i \in (Len(calls) + 1)..Len(calls') :
          calls'[i].module = BackendModule(framework)]_vars

C2_Witness ==
    /\ Len(calls) = 2
    /\ calls[1].module = BackendModule("torch")
    /\ calls[2].module = BackendModule("jax")
    /\ calls[2].fn = "conv1d"
    /\ framework = "jax"

(***************************************************************************)
(* Arrays.  An array is its shape and its elements, one per index tuple    *)
(* (indices count from 0, axes from 0 as in the source; position k of a    *)
(* shape or index sequence is axis k - 1).                                 *)
(***************************************************************************)
MaxRank == 2
MaxDim == 2
MaxSize == 4

RECURSIVE Prod(_)
Prod(shape) == IF shape = <<>> THEN 1 ELSE Head(shape) * Prod(Tail(shape))

Shapes ==
    { sh \in UNION { [1..r -> 0..MaxDim] : r \in 0..MaxRank } : Prod(sh) <= MaxSize }

RECURSIVE SeqMax(_)
SeqMax(shape) ==
    IF shape = <<>> THEN 0
    ELSE LET m == SeqMax(Tail(shape)) IN IF Head(shape) > m THEN Head(shape) ELSE m

Indices(shape) ==
    { i \in [1..Len(shape) -> 0..(SeqMax(shape) - 1)] :
        \A k \in 1..Len(shape) : i[k] < shape[k] }

ArraysOf(shape, Elems) ==
    { [shape |-> shape, data |-> d] : d \in [Indices(shape) -> Elems] }

BoolArrays == UNION { ArraysOf(sh, BOOLEAN) : sh \in Shapes }

(***************************************************************************)
(* jax.numpy.all / jax.numpy.any: the reduction of a boolean array over    *)
(* the given axes, one axis after the other, each by folding the elements  *)
(* along it into the reduction's identity.                                 *)
(***************************************************************************)
\* The axis argument: None, an int, or a tuple/list of ints.
AxisNone == [kind |-> "none", axes |-> <<>>]
AxisInt(a) == [kind |-> "int", axes |-> <<a>>]
AxisTuple(t) == [kind |-> "tuple", axes |-> t]

NormAxis(a, rank) == IF a < 0 THEN a + rank ELSE a

\* The axes reduced, as positions 1..rank.
ReducedAxes(axis, rank) ==
    IF axis.kind = "none" THEN 1..rank
    ELSE { NormAxis(axis.axes[n], rank) + 1 : n \in 1..Len(axis.axes) }

\* The axis arguments jnp accepts for an array of this rank: every axis in
\* -rank..rank-1, no axis named twice.
ValidAxisArgs(rank) ==
    {AxisNone}
    \cup { AxisInt(a) : a \in (-rank)..(rank - 1) }
    \cup { AxisTuple(t) : t \in
             { u \in UNION { [1..n -> (-rank)..(rank - 1)] : n \in 0..rank } :
                 \A i, j \in 1..Len(u) :
                     i # j => NormAxis(u[i], rank) # NormAxis(u[j], rank) } }

RECURSIVE FoldAlong(_, _, _, _, _)
\* and (isAll) / or of the elements x[idx with axis k set to j..shape[k]-1].
FoldAlong(x, idx, k, j, isAll) ==
    IF j >= x.shape[k] THEN isAll
    ELSE LET e == x.data[[idx EXCEPT ![k] = j]]
             rest == FoldAlong(x, idx, k, j + 1, isAll)
         IN IF isAll THEN e /\ rest ELSE e \/ rest

\* x reduced along axis k, the axis kept with length 1.
ReduceAxis(x, k, isAll) ==
    LET sh == [x.shape EXCEPT ![k] = 1]
    IN [shape |-> sh,
        data |-> [idx \in Indices(sh) |-> FoldAlong(x, idx, k, 0, isAll)]]

RECURSIVE ReduceAxes(_, _, _)
ReduceAxes(x, R, isAll) ==
    IF R = {} THEN x
    ELSE LET k == CHOOSE a \in R : \A b \in R : a <= b
         IN ReduceAxes(ReduceAxis(x, k, isAll), R \ {k}, isAll)

\* The positions of shape that are not in R, in order.
RECURSIVE KeptAxes(_, _, _)
KeptAxes(k, rank, R) ==
    IF k > rank THEN <<>>
    ELSE (IF k \in R THEN <<>> ELSE <<k>>) \o KeptAxes(k + 1, rank, R)

\* x, whose axes R have length 1, without those axes.
Squeeze(x, R) ==
    LET kept == KeptAxes(1, Len(x.shape), R)
        sh == [n \in 1..Len(kept) |-> x.shape[kept[n]]]
        full(o) == [k \in 1..Len(x.shape) |->
                       IF k \in R THEN 0
                       ELSE o[CHOOSE n \in 1..Len(kept) : kept[n] = k]]
    IN [shape |-> sh, data |-> [o \in Indices(sh) |-> x.data[full(o)]]]

jnp_reduce(x, axis, keepdims, isAll) ==
    LET R == ReducedAxes(axis, Len(x.shape))
        r == ReduceAxes(x, R, isAll)
    IN IF keepdims THEN r ELSE Squeeze(r, R)

jnp_all(x, axis, keepdims) == jnp_reduce(x, axis, keepdims, TRUE)

jnp_any(x, axis, keepdims) == jnp_reduce(x, axis, keepdims, FALSE)

(***************************************************************************)
(* The JAX backend's all and any (backends/jax/utility.py).                *)
(***************************************************************************)
\* keepdims not handed on.
all_drops_keepdims(x, axis, keepdims) == jnp_all(x, axis, FALSE)

all(x, axis, keepdims) == jnp_all(x, axis, keepdims)

any(x, axis, keepdims) == jnp_any(x, axis, keepdims)

ReduceInputs ==
    { [x |-> x, axis |-> ax, keepdims |-> kd] :
        x \in BoolArrays, ax \in ValidAxisArgs(MaxRank), kd \in BOOLEAN }

InitReduce ==
    /\ framework = "jax"
    /\ calls = <<>>
    /\ op = "none"
    /\ ret = None
    /\ args \in { a \in ReduceInputs : a.axis \in ValidAxisArgs(Len(a.x.shape)) }

All ==
    /\ op = "none"
    /\ op' = "all"
    /\ ret' = all(args.x, args.axis, args.keepdims)
    /\ UNCHANGED <<framework, calls, args>>

Any ==
    /\ op = "none"
    /\ op' = "any"
    /\ ret' = any(args.x, args.axis, args.keepdims)
    /\ UNCHANGED <<framework, calls, args>>

NextReduce ==
    \/ All
    \/ Any

SpecReduce == InitReduce /\ [][NextReduce]_vars

(***************************************************************************)
(* C3: all(x, axis, keepdims) is true at an output position iff every      *)
(* element of x reduced into that position is true, any iff at least one   *)
(* is; axis None reduces over every element; the reduced axes are dropped  *)
(* from the shape, or kept with length 1 under keepdims; an empty          *)
(* reduction gives true for all and false for any.                         *)
(***************************************************************************)
\* Whether element idx of the input is reduced into element o of the output.
ReducedInto(idx, o, R, keepdims) ==
    LET kept == KeptAxes(1, Len(idx), R)
    IN IF keepdims
       THEN \A k \in 1..Len(idx) : o[k] = (IF k \in R THEN 0 ELSE idx[k])
       ELSE \A n \in 1..Len(kept) : o[n] = idx[kept[n]]

ReducedShape(shape, R, keepdims) ==
    LET kept == KeptAxes(1, Len(shape), R)
    IN IF keepdims
       THEN [k \in 1..Len(shape) |-> IF k \in R THEN 1 ELSE shape[k]]
       ELSE [n \in 1..Len(kept) |-> shape[kept[n]]]

C3_ReductionsMatchJnp ==
    op \in {"all", "any"} =>
        LET x == args.x
            R == ReducedAxes(args.axis, Len(x.shape))
        IN /\ ret.shape = ReducedShape(x.shape, R, args.keepdims)
           /\ DOMAIN ret.data = Indices(ret.shape)
           /\ \A o \in Indices(ret.shape) :
                 LET into == { i \in Indices(x.shape) :
                                 ReducedInto(i, o, R, args.keepdims) }
                 IN ret.data[o] = IF op = "all"
                                  THEN \A i \in into : x.data[i]
                                  ELSE \E i \in into : x.data[i]

\* all over one axis of a 2 x 0 array with keepdims: the reduction of each
\* row is empty and gives true.
C3_Witness ==
    /\ op = "all"
    /\ args.x.shape = <<2, 0>>
    /\ args.axis = AxisInt(-1)
    /\ args.keepdims
    /\ ret.shape = <<2, 1>>
    /\ \A o \in Indices(ret.shape) : ret.data[o]

(***************************************************************************)
(* Sparse arrays of the torch backend (experimental/sparse_array.py).      *)
(* An optional argument is <<>> when it is None and <<v>> when it is v.    *)
(***************************************************************************)
Absent == <<>>
Given(v) == <<v>>
exists(a) == a # Absent

SparseFields ==
    {"data", "coo_indices", "csr_crow_indices", "csr_col_indices", "csc_ccol_indices",
     "csc_row_indices", "bsc_ccol_indices", "bsc_row_indices", "bsr_crow_indices",
     "bsr_col_indices", "values", "dense_shape"}

IndexFields ==
    SparseFields \ {"data", "values", "dense_shape"}

\* Outcomes of a call: a value returned, or an exception raised.
Returns(v) == [kind |-> "return", value |-> v]
Raises(e) == [kind |-> "raise", value |-> e]
Passed == [kind |-> "return", value |-> None]

\* torch layouts the backend counts as sparse.
is_native_sparse_array(x) == x.layout \in {"sparse_coo", "sparse_csr", "sparse_csc"}

\* ivy.assertions.check_true / check_equal / check_less: raise unless they hold.
Check(cond, message) == IF cond THEN Passed ELSE Raises(message)

RECURSIVE FirstFailure(_)
\* The outcome of a sequence of checks run in order: the first that raises.
FirstFailure(checks) ==
    IF checks = <<>> THEN Passed
    ELSE IF Head(checks).kind = "raise" THEN Head(checks)
    ELSE FirstFailure(Tail(checks))

AllLess(arr, bound) == \A i \in DOMAIN arr.data : arr.data[i] < bound

\* The format predicates of ivy.functional.ivy.experimental.sparse_array: the
\* format's own components are all given, and nothing of another format is.
OthersAbsent(a, own, message) ==
    Check(\A f \in IndexFields \ own : ~exists(a[f]), message)

IsFormat(a, own, message) ==
    IF \A f \in own \cup {"values", "dense_shape"} : exists(a[f])
    THEN (LET c == OthersAbsent(a, own, message)
          IN IF c.kind = "raise" THEN c ELSE Returns(TRUE))
    ELSE Returns(FALSE)

is_data_not_indices_values_and_shape(a) ==
    IF exists(a.data)
    THEN (LET c == Check(\A f \in SparseFields \ {"data"} : ~exists(a[f]),
                         "only specify data or the components of one format")
          IN IF c.kind = "raise" THEN c ELSE Returns(TRUE))
    ELSE Returns(FALSE)

is_coo(a) == IsFormat(a, {"coo_indices"}, "only specify coo_indices for COO format")
is_csr(a) ==
    IsFormat(a, {"csr_crow_indices", "csr_col_indices"},
             "only specify csr_crow_indices and csr_col_indices for CSR format")
is_csc(a) ==
    IsFormat(a, {"csc_ccol_indices", "csc_row_indices"},
             "only specify csc_ccol_indices and csc_row_indices for CSC format")
is_bsc(a) ==
    IsFormat(a, {"bsc_ccol_indices", "bsc_row_indices"},
             "only specify bsc_ccol_indices and bsc_row_indices for BSC format")
is_bsr(a) ==
    IsFormat(a, {"bsr_crow_indices", "bsr_col_indices"},
             "only specify bsr_crow_indices and bsr_col_indices for BSR format")

\* The component checks of ivy.functional.ivy.experimental.sparse_array.
verify_coo_components(indices, values, dense_shape) ==
    IF ~(exists(indices) /\ exists(values) /\ exists(dense_shape))
    THEN Raises("indices, values and dense_shape must all be specified")
    ELSE LET ind == indices[1]
             val == values[1]
             shp == dense_shape[1]
         IN IF Len(ind.shape) # 2 THEN Raises("indices must be 2D")
            ELSE FirstFailure(<<
                Check(Len(val.shape) = 1, "values must be 1D"),
                Check(Len(shp) = ind.shape[1], "shape and indices shape do not match"),
                Check(Len(val.shape) = 1 /\ val.shape[1] = ind.shape[2],
                      "values and indices do not match"),
                Check(Len(shp) = ind.shape[1] /\
                      \A i \in Indices(ind.shape) : ind.data[i] < shp[i[1] + 1],
                      "indices is larger than shape") >>)

\* Shared by the compressed formats: ptr is crow_indices (ccol_indices), idx is
\* col_indices (row_indices); major is the dimension ptr compresses.
verify_compressed_components(ptr, idx, values, dense_shape, major, valueRank) ==
    IF ~(exists(ptr) /\ exists(idx) /\ exists(values) /\ exists(dense_shape))
    THEN Raises("indices, values and dense_shape must all be specified")
    ELSE LET p == ptr[1]
             x == idx[1]
             val == values[1]
             shp == dense_shape[1]
         IN IF Len(p.shape) # 1 THEN Raises("compressed indices must be 1D")
            ELSE IF Len(x.shape) # 1 THEN Raises("plain indices must be 1D")
            ELSE IF Len(shp) # 2 THEN Raises("only 2D arrays can be converted")
            ELSE FirstFailure(<<
                Check(Len(val.shape) = valueRank, "values have the wrong number of dimensions"),
                Check(p.shape[1] - 1 = shp[major], "compressed indices do not match shape"),
                Check(AllLess(x, shp[3 - major]), "index does not match shape"),
                Check(Len(val.shape) >= 1 /\ x.shape[1] = val.shape[1],
                      "values and indices do not match") >>)

verify_csr_components(crow_indices, col_indices, values, dense_shape) ==
    verify_compressed_components(crow_indices, col_indices, values, dense_shape, 1, 1)

verify_csc_components(ccol_indices, row_indices, values, dense_shape) ==
    verify_compressed_components(ccol_indices, row_indices, values, dense_shape, 2, 1)

verify_bsr_components(crow_indices, col_indices, values, dense_shape) ==
    verify_compressed_components(crow_indices, col_indices, values, dense_shape, 1, 3)

verify_bsc_components(ccol_indices, row_indices, values, dense_shape) ==
    verify_compressed_components(ccol_indices, row_indices, values, dense_shape, 2, 3)

\* A call the function makes, as it is logged.
Called(fn, a) == [fn |-> fn, args |-> a]

\* The torch constructors: what they build is determined by what they are given.
TorchTensor(layout, a) == [layout |-> layout, components |-> a]

\* The tensor is constructed before its components are verified.
VerifyThenConstruct_late(verifyFn, outcome, comps, ctor, layout, ctorArgs) ==
    IF ctor = None
    THEN [made |-> <<Called(verifyFn, comps)>>,
          ret |-> IF outcome.kind = "raise" THEN outcome ELSE Returns(None)]
    ELSE [made |-> <<Called(ctor, ctorArgs), Called(verifyFn, comps)>>,
          ret |-> IF outcome.kind = "raise" THEN outcome
                  ELSE Returns(TorchTensor(layout, ctorArgs))]

\* A format branch of native_sparse_array: verify the components, then (for the
\* formats torch is asked to build) construct the tensor.
VerifyThenConstruct(verifyFn, outcome, comps, ctor, layout, ctorArgs) ==
    IF outcome.kind = "raise"
    THEN [made |-> <<Called(verifyFn, comps)>>, ret |-> outcome]
    ELSE IF ctor = None
    THEN [made |-> <<Called(verifyFn, comps)>>, ret |-> Returns(None)]
    ELSE [made |-> <<Called(verifyFn, comps), Called(ctor, ctorArgs)>>,
          ret |-> Returns(TorchTensor(layout, ctorArgs))]

\* The keyword arguments a format's verification is called with: the
\* format's own index parameters under the names the verification gives them.
Components(a, fmt) ==
    CASE fmt = "coo" -> [indices |-> a.coo_indices, values |-> a.values,
                         dense_shape |-> a.dense_shape]
      [] fmt = "csr" -> [crow_indices |-> a.csr_crow_indices,
                         col_indices |-> a.csr_col_indices,
                         values |-> a.values, dense_shape |-> a.dense_shape]
      [] fmt = "csc" -> [ccol_indices |-> a.csc_ccol_indices,
                         row_indices |-> a.csc_row_indices,
                         values |-> a.values, dense_shape |-> a.dense_shape]
      [] fmt = "bsc" -> [ccol_indices |-> a.bsc_ccol_indices,
                         row_indices |-> a.bsc_row_indices,
                         values |-> a.values, dense_shape |-> a.dense_shape]
      [] fmt = "bsr" -> [crow_indices |-> a.bsr_crow_indices,
                         col_indices |-> a.bsr_col_indices,
                         values |-> a.values, dense_shape |-> a.dense_shape]

native_sparse_array(a) ==
    LET isData == is_data_not_indices_values_and_shape(a)
        isCoo == is_coo(a)
        isCsr == is_csr(a)
        isCsc == is_csc(a)
        isBsc == is_bsc(a)
        isBsr == is_bsr(a)
    IN IF isData.kind = "raise" THEN [made |-> <<>>, ret |-> isData]
       ELSE IF isData.value
       THEN (LET c == Check(is_native_sparse_array(a.data[1]), "not a sparse array")
             IN [made |-> <<>>,
                 ret |-> IF c.kind = "raise" THEN c ELSE Returns(a.data[1])])
       ELSE IF isCoo.kind = "raise" THEN [made |-> <<>>, ret |-> isCoo]
       ELSE IF isCoo.value
       THEN VerifyThenConstruct(
                "_verify_coo_components",
                verify_coo_components(a.coo_indices, a.values, a.dense_shape),
                Components(a, "coo"),
                "torch.sparse_coo_tensor", "sparse_coo",
                [indices |-> a.coo_indices, values |-> a.values, size |-> a.dense_shape])
       ELSE IF isCsr.kind = "raise" THEN [made |-> <<>>, ret |-> isCsr]
       ELSE IF isCsr.value
       THEN VerifyThenConstruct(
                "_verify_csr_components",
                verify_csr_components(a.csr_crow_indices, a.csr_col_indices, a.values,
                                      a.dense_shape),
                Components(a, "csr"),
                "torch.sparse_csr_tensor", "sparse_csr",
                [crow_indices |-> a.csr_crow_indices, col_indices |-> a.csr_col_indices,
                 values |-> a.values, size |-> a.dense_shape])
       ELSE IF isCsc.kind = "raise" THEN [made |-> <<>>, ret |-> isCsc]
       ELSE IF isCsc.value
       THEN VerifyThenConstruct(
                "_verify_csc_components",
                verify_csc_components(a.csc_ccol_indices, a.csc_row_indices, a.values,
                                      a.dense_shape),
                Components(a, "csc"),
                "torch.sparse_csc_tensor", "sparse_csc",
                [ccol_indices |-> a.csc_ccol_indices, row_indices |-> a.csc_row_indices,
                 values |-> a.values, size |-> a.dense_shape])
       ELSE IF isBsc.kind = "raise" THEN [made |-> <<>>, ret |-> isBsc]
       ELSE IF isBsc.value
       THEN VerifyThenConstruct(
                "_verify_bsc_components",
                verify_bsc_components(a.bsc_ccol_indices, a.bsc_row_indices, a.values,
                                      a.dense_shape),
                Components(a, "bsc"),
                None, None, None)
       ELSE IF isBsr.kind = "raise" THEN [made |-> <<>>, ret |-> isBsr]
       ELSE IF isBsr.value
       THEN VerifyThenConstruct(
                "_verify_bsr_components",
                verify_bsr_components(a.bsr_crow_indices, a.bsr_col_indices, a.values,
                                      a.dense_shape),
                Components(a, "bsr"),
                None, None, None)
       ELSE [made |-> <<>>, ret |-> Returns(None)]

\* The components a caller may hand over.
SparseIndexArrays ==
    ArraysOf(<<2>>, 0..1) \cup ArraysOf(<<3>>, {0}) \cup ArraysOf(<<1, 2>>, 0..1)

SparseValueArrays ==
    UNION { ArraysOf(sh, {1}) : sh \in {<<2>>, <<3>>, <<2, 1, 1>>} }

DenseShapes == {<<1>>, <<2>>, <<2, 1>>, <<2, 2>>}

TorchData == {[layout |-> "sparse_coo"], [layout |-> "sparse_csr"], [layout |-> "strided"]}

NoArgs == [f \in SparseFields |-> Absent]

WithData(base) == { [b EXCEPT !.data = Given(d)] : b \in base, d \in TorchData }
WithValues(base) == { [b EXCEPT !.values = Given(v)] : b \in base, v \in SparseValueArrays }
WithShape(base) == { [b EXCEPT !.dense_shape = Given(d)] : b \in base, d \in DenseShapes }
WithIndex(base, f) == { [b EXCEPT ![f] = Given(i)] : b \in base, i \in SparseIndexArrays }
WithFormat(f1, f2) == WithShape(WithValues(WithIndex(WithIndex({NoArgs}, f1), f2)))

\* What a call names: nothing, data alone, data beside values, the components
\* of one format, a format without its dense_shape, two formats at once.
SparseInputs ==
    {NoArgs}
    \cup WithData({NoArgs})
    \cup WithValues(WithData({NoArgs}))
    \cup WithFormat("coo_indices", "coo_indices")
    \cup WithValues(WithIndex({NoArgs}, "coo_indices"))
    \cup WithIndex(WithFormat("coo_indices", "coo_indices"), "csr_crow_indices")
    \cup WithFormat("csr_crow_indices", "csr_col_indices")
    \cup WithFormat("csc_ccol_indices", "csc_row_indices")
    \cup WithIndex(WithFormat("csr_crow_indices", "csr_col_indices"), "csc_row_indices")
    \cup WithFormat("bsc_ccol_indices", "bsc_row_indices")
    \cup WithFormat("bsr_crow_indices", "bsr_col_indices")

InitSparse ==
    /\ framework = "torch"
    /\ calls = <<>>
    /\ op = "none"
    /\ ret = None
    /\ args \in SparseInputs

NativeSparseArray ==
    /\ op = "none"
    /\ LET r == native_sparse_array(args)
       IN /\ calls' = calls \o r.made
          /\ ret' = r.ret
    /\ op' = "native_sparse_array"
    /\ UNCHANGED <<framework, args>>

NextSparse == NativeSparseArray

SpecSparse == InitSparse /\ [][NextSparse]_vars

(***************************************************************************)
(* C4: given exactly the components of the COO, CSR or CSC format,         *)
(* native_sparse_array first runs that format's verification on the        *)
(* indices, values and dense_shape it was given; if the verification       *)
(* raises, no torch constructor is called and the verification's error is  *)
(* what the caller gets; otherwise the format's torch constructor is       *)
(* called next, once, and its tensor returned.                             *)
(***************************************************************************)
FormatIndexFields(fmt) ==
    CASE fmt = "coo" -> {"coo_indices"}
      [] fmt = "csr" -> {"csr_crow_indices", "csr_col_indices"}
      [] fmt = "csc" -> {"csc_ccol_indices", "csc_row_indices"}

GivenExactly(a, fmt) ==
    \A f \in SparseFields :
        exists(a[f]) <=> f \in FormatIndexFields(fmt) \cup {"values", "dense_shape"}

FormatVerification(a, fmt) ==
    CASE fmt = "coo" -> verify_coo_components(a.coo_indices, a.values, a.dense_shape)
      [] fmt = "csr" -> verify_csr_components(a.csr_crow_indices, a.csr_col_indices,
                                              a.values, a.dense_shape)
      [] fmt = "csc" -> verify_csc_components(a.csc_ccol_indices, a.csc_row_indices,
                                              a.values, a.dense_shape)

VerifiedComponents(a, fmt) ==
    CASE fmt = "coo" -> [indices |-> a.coo_indices, values |-> a.values,
                         dense_shape |-> a.dense_shape]
      [] fmt = "csr" -> [crow_indices |-> a.csr_crow_indices,
                         col_indices |-> a.csr_col_indices,
                         values |-> a.values, dense_shape |-> a.dense_shape]
      [] fmt = "csc" -> [ccol_indices |-> a.csc_ccol_indices,
                         row_indices |-> a.csc_row_indices,
                         values |-> a.values, dense_shape |-> a.dense_shape]

TorchConstructors ==
    {"torch.sparse_coo_tensor", "torch.sparse_csr_tensor", "torch.sparse_csc_tensor"}

C4_VerifiedBeforeConstructed ==
    op = "native_sparse_array" =>
        \A fmt \in {"coo", "csr", "csc"} :
            GivenExactly(args, fmt) =>
                LET v == FormatVerification(args, fmt)
                IN /\ Len(calls) >= 1
                   /\ calls[1].fn = "_verify_" \o fmt \o "_components"
                   /\ calls[1].args = VerifiedComponents(args, fmt)
                   /\ IF v.kind = "raise"
                      THEN /\ \A i \in 1..Len(calls) : calls[i].fn \notin TorchConstructors
                           /\ ret.kind = "raise"
                           /\ ret.value = v.value
                      ELSE /\ Len(calls) = 2
                           /\ calls[2].fn = "torch.sparse_" \o fmt \o "_tensor"
                           /\ ret.kind = "return"
                           /\ ret.value.layout = "sparse_" \o fmt

\* A CSR call whose col_indices hold an index outside dense_shape: the
\* verification raised and nothing else was called.
C4_Witness ==
    /\ op = "native_sparse_array"
    /\ GivenExactly(args, "csr")
    /\ calls = <<Called("_verify_csr_components", VerifiedComponents(args, "csr"))>>
    /\ ret = Raises("index does not match shape")

(***************************************************************************)
(* linear (layers.py), followed on the shapes of its arrays.  The shape    *)
(* rules of the primitives it calls are those of the array libraries:      *)
(* matmul multiplies the last two axes and broadcasts the leading ones, a  *)
(* 1-D left operand counting as a row vector; reshape keeps the number of  *)
(* elements; addition broadcasts.                                          *)
(***************************************************************************)
MaxBatchDims == 2

Ok(r) == r.kind = "return"

\* shape[:n] and shape[n:] for 0 <= n.
Prefix(shape, n) == SubSeq(shape, 1, IF n < Len(shape) THEN n ELSE Len(shape))
Suffix(shape, n) == SubSeq(shape, n + 1, Len(shape))
\* shape[:-n] and shape[-n:] for n > 0.
DropLast(shape, n) == Prefix(shape, IF Len(shape) > n THEN Len(shape) - n ELSE 0)
TakeLast(shape, n) == Suffix(shape, IF Len(shape) > n THEN Len(shape) - n ELSE 0)

Repeat(v, n) == [i \in 1..n |-> v]

Max(a, b) == IF a >= b THEN a ELSE b

\* Broadcasting of two shapes, aligned at their last axes.
broadcast_shapes(s, t) ==
    LET n == Max(Len(s), Len(t))
        ps == Repeat(1, n - Len(s)) \o s
        pt == Repeat(1, n - Len(t)) \o t
    IN IF \A k \in 1..n : ps[k] = pt[k] \/ ps[k] = 1 \/ pt[k] = 1
       THEN Returns([k \in 1..n |-> IF ps[k] = 1 THEN pt[k] ELSE ps[k]])
       ELSE Raises("shapes cannot be broadcast")

matmul_shape(s, t) ==
    IF Len(s) = 0 \/ Len(t) = 0 THEN Raises("matmul: operand is a scalar")
    ELSE LET a == IF Len(s) = 1 THEN <<1>> \o s ELSE s
             b == IF Len(t) = 1 THEN t \o <<1>> ELSE t
             batch == broadcast_shapes(DropLast(a, 2), DropLast(b, 2))
         IN IF a[Len(a)] # b[Len(b) - 1] THEN Raises("matmul: inner dimensions differ")
            ELSE IF ~Ok(batch) THEN batch
            ELSE Returns(batch.value
                         \o (IF Len(s) = 1 THEN <<>> ELSE <<a[Len(a) - 1]>>)
                         \o (IF Len(t) = 1 THEN <<>> ELSE <<b[Len(b)]>>))

swapaxes_last_two(s) ==
    DropLast(s, 2) \o <<s[Len(s)], s[Len(s) - 1]>>

reshape_shape(s, t) ==
    IF Prod(s) = Prod(t) THEN Returns(t) ELSE Raises("cannot reshape")

linear(x, weight, bias) ==
    LET outer_batch_shape == DropLast(weight, 2)
        num_outer_batch_dims == Len(outer_batch_shape)
        inner_batch_shape == DropLast(Suffix(x, num_outer_batch_dims), 1)
        num_inner_batch_dims == Len(inner_batch_shape)
        num_out_feats == weight[Len(weight) - 1]
        num_in_feats == weight[Len(weight)]
        w == reshape_shape(weight, outer_batch_shape
                             \o Repeat(1, Max(num_inner_batch_dims - 1, 0))
                             \o <<num_out_feats, num_in_feats>>)
        y == IF Ok(w) THEN matmul_shape(x, swapaxes_last_two(w.value)) ELSE w
        bias_broadcast ==
            reshape_shape(bias[1], outer_batch_shape \o Repeat(1, num_inner_batch_dims)
                             \o <<num_out_feats>>)
    IN IF ~Ok(y) \/ ~exists(bias) THEN y
       ELSE IF ~Ok(bias_broadcast) THEN bias_broadcast
       ELSE broadcast_shapes(y.value, bias_broadcast.value)

\* The shapes the docstring of linear describes.
BatchShapes == UNION { [1..n -> 1..MaxDim] : n \in 0..MaxBatchDims }

LinearInputs ==
    { [outer |-> o, inner |-> i, in_features |-> fi, out_features |-> fo,
       x |-> o \o i \o <<fi>>,
       weight |-> o \o <<fo, fi>>,
       bias |-> IF b THEN Given(o \o <<fo>>) ELSE Absent] :
        o \in BatchShapes, i \in BatchShapes, fi \in 1..MaxDim, fo \in 1..MaxDim,
        b \in BOOLEAN }

InitLinear ==
    /\ framework = "numpy"
    /\ calls = <<>>
    /\ op = "none"
    /\ ret = None
    /\ args \in LinearInputs

Linear ==
    /\ op = "none"
    /\ op' = "linear"
    /\ ret' = linear(args.x, args.weight, args.bias)
    /\ UNCHANGED <<framework, calls, args>>

NextLinear == Linear

SpecLinear == InitLinear /\ [][NextLinear]_vars

(***************************************************************************)
(* C5: for x of shape outer + inner + [in_features], weight of shape       *)
(* outer + [out_features, in_features] and bias, if given, of shape        *)
(* outer + [out_features], linear returns an array of shape                *)
(* outer + inner + [out_features], whatever the numbers of outer and       *)
(* inner batch dimensions.                                                 *)
(***************************************************************************)
C5_LinearShape ==
    op = "linear" =>
        /\ Ok(ret)
        /\ ret.value = args.outer \o args.inner \o <<args.out_features>>

\* What does hold: the documented shape whenever there is an inner batch
\* dimension or no outer one.
C5_LinearShapeWithInnerBatch ==
    (op = "linear" /\ (args.inner # <<>> \/ args.outer = <<>>)) =>
        /\ Ok(ret)
        /\ ret.value = args.outer \o args.inner \o <<args.out_features>>

(***************************************************************************)
(* Arrays of real numbers.  The functions below never look at a number,    *)
(* they only combine them, so an element is the expression that computes   *)
(* it, written in prefix form as a sequence of integers: a leaf            *)
(* <<0, array, position>> names an element of an input array, and          *)
(* -1 a b, -2 a b, -3 a, -4 a are a + b, a * b, sigmoid(a) and tanh(a).    *)
(* Two elements with the same expression are the same number whatever      *)
(* sigmoid and tanh are.                                                   *)
(***************************************************************************)
Leaf(array, n) == <<0, array, n>>
TAdd(a, b) == <<-1>> \o a \o b
TMul(a, b) == <<-2>> \o a \o b
TSigmoid(a) == <<-3>> \o a
TTanh(a) == <<-4>> \o a

Front(s) == SubSeq(s, 1, Len(s) - 1)
Last(s) == s[Len(s)]

\* Row-major position of an index, and back.
RECURSIVE FlatIndex(_, _)
FlatIndex(shape, idx) ==
    IF shape = <<>> THEN 0
    ELSE FlatIndex(Front(shape), Front(idx)) * Last(shape) + Last(idx)

RECURSIVE Unflatten(_, _)
Unflatten(shape, n) ==
    IF shape = <<>> THEN <<>>
    ELSE Unflatten(Front(shape), n \div Last(shape)) \o <<n % Last(shape)>>

\* An input array: every element its own unknown.
InputArray(array, shape) ==
    [shape |-> shape,
     data |-> [i \in Indices(shape) |-> Leaf(array, FlatIndex(shape, i))]]

\* ivy.reshape: the elements in row-major order under a new shape, in which
\* one length may be given as -1.
ResolveShape(size, target) ==
    LET known == Prod([k \in 1..Len(target) |-> IF target[k] = -1 THEN 1 ELSE target[k]])
    IN [k \in 1..Len(target) |-> IF target[k] = -1 THEN size \div known ELSE target[k]]

reshape(x, target) ==
    LET sh == ResolveShape(Prod(x.shape), target)
    IN [shape |-> sh,
        data |-> [i \in Indices(sh) |-> x.data[Unflatten(x.shape, FlatIndex(sh, i))]]]

\* The index of an operand's element that broadcasting pairs with element i
\* of the result.
Aligned(i, shape) ==
    LET off == Len(i) - Len(shape)
    IN [k \in 1..Len(shape) |-> IF shape[k] = 1 THEN 0 ELSE i[k + off]]

add(a, b) ==
    LET sh == broadcast_shapes(a.shape, b.shape).value
    IN [shape |-> sh,
        data |-> [i \in Indices(sh) |->
                     TAdd(a.data[Aligned(i, a.shape)], b.data[Aligned(i, b.shape)])]]

multiply(a, b) ==
    LET sh == broadcast_shapes(a.shape, b.shape).value
    IN [shape |-> sh,
        data |-> [i \in Indices(sh) |->
                     TMul(a.data[Aligned(i, a.shape)], b.data[Aligned(i, b.shape)])]]

sigmoid(a) == [shape |-> a.shape, data |-> [i \in Indices(a.shape) |-> TSigmoid(a.data[i])]]
tanh(a) == [shape |-> a.shape, data |-> [i \in Indices(a.shape) |-> TTanh(a.data[i])]]

\* x + (bias if bias is not None else 0)
add_optional(x, bias) == IF exists(bias) THEN add(x, bias[1]) ELSE x

\* ivy.matmul of an array of rank >= 1 with a matrix: the sum over k, from
\* k = 0 up, of a[..., k] * b[k, j].
RECURSIVE DotTo(_, _, _, _, _)
DotTo(a, row, b, j, k) ==
    LET term == TMul(a.data[row \o <<k>>], b.data[<<k, j>>])
    IN IF k = 0 THEN term ELSE TAdd(DotTo(a, row, b, j, k - 1), term)

matmul(a, b) ==
    LET sh == matmul_shape(a.shape, b.shape).value
    IN [shape |-> sh,
        data |-> [i \in Indices(sh) |-> DotTo(a, Front(i), b, Last(i), b.shape[1] - 1)]]

\* ivy.split(x, n, -1): n equal parts along the last axis.
split(x, n, part) ==
    LET w == Last(x.shape) \div n
        sh == Front(x.shape) \o <<w>>
    IN [shape |-> sh,
        data |-> [i \in Indices(sh) |-> x.data[Front(i) \o <<(part - 1) * w + Last(i)>>]]]

\* ivy.unstack(x, axis=-2): one array per position along the axis before last.
unstack(x) ==
    LET sh == Front(Front(x.shape)) \o <<Last(x.shape)>>
    IN [t \in 1..x.shape[Len(x.shape) - 1] |->
           [shape |-> sh,
            data |-> [i \in Indices(sh) |-> x.data[Front(i) \o <<t - 1, Last(i)>>]]]]

\* ivy.expand_dims(x, -2)
expand_dims(x) ==
    LET sh == Front(x.shape) \o <<1, Last(x.shape)>>
    IN [shape |-> sh,
        data |-> [i \in Indices(sh) |-> x.data[Front(Front(i)) \o <<Last(i)>>]]]

\* ivy.concat(xs, -2): the arrays one after the other along the axis before last.
RECURSIVE concat(_)
concat(xs) ==
    IF Len(xs) = 1 THEN xs[1]
    ELSE LET a == concat(Front(xs))
             b == Last(xs)
             n == a.shape[Len(a.shape) - 1]
             sh == Front(Front(a.shape)) \o <<n + b.shape[Len(b.shape) - 1], Last(a.shape)>>
         IN [shape |-> sh,
             data |-> [i \in Indices(sh) |->
                          IF i[Len(i) - 1] < n THEN a.data[i]
                          ELSE b.data[Front(Front(i)) \o <<i[Len(i) - 1] - n, Last(i)>>]]]

\* zip of four lists: as long as the shortest.
Min(a, b) == IF a <= b THEN a ELSE b
zip4(a, b, c, d) ==
    [t \in 1..Min(Min(Len(a), Len(b)), Min(Len(c), Len(d))) |-> <<a[t], b[t], c[t], d[t]>>]

(***************************************************************************)
(* lstm_update (layers.py).                                                *)
(***************************************************************************)
MaxT == 2
MaxFeat == 2

\* One pass of the loop body: the new hidden and cell state.
lstm_step(Wx, htm1, ctm1, Wh, recurrent_bias) ==
    LET Wh_htm1 == add_optional(matmul(htm1, Wh), recurrent_bias)
        Whi_htm1 == split(Wh_htm1, 4, 1)
        Whf_htm1 == split(Wh_htm1, 4, 2)
        Whg_htm1 == split(Wh_htm1, 4, 3)
        Who_htm1 == split(Wh_htm1, 4, 4)
        it == sigmoid(add(Wx[1], Whi_htm1))
        ft == sigmoid(add(Wx[2], Whf_htm1))
        gt == tanh(add(Wx[3], Whg_htm1))
        ot == sigmoid(add(Wx[4], Who_htm1))
        ct == add(multiply(ft, ctm1), multiply(it, gt))
        ht == multiply(ot, tanh(ct))
    IN [ht |-> ht, ct |-> ct]

\* The cell state is not carried from one pass to the next.
RECURSIVE lstm_loop_drops_cell(_, _, _, _, _, _, _)
lstm_loop_drops_cell(steps, n, ht, ct, hts_list, Wh, recurrent_bias) ==
    IF n > Len(steps) THEN [ht |-> ht, ct |-> ct, hts_list |-> hts_list]
    ELSE LET new == lstm_step(steps[n], ht, ct, Wh, recurrent_bias)
         IN lstm_loop_drops_cell(steps, n + 1, new.ht,
                                 IF n = Len(steps) THEN new.ct ELSE ct,
                                 Append(hts_list, expand_dims(new.ht)), Wh, recurrent_bias)

\* The loop over the unrolled time axis, from pass n on.
RECURSIVE lstm_loop(_, _, _, _, _, _, _)
lstm_loop(steps, n, ht, ct, hts_list, Wh, recurrent_bias) ==
    IF n > Len(steps) THEN [ht |-> ht, ct |-> ct, hts_list |-> hts_list]
    ELSE LET new == lstm_step(steps[n], ht, ct, Wh, recurrent_bias)
         IN lstm_loop(steps, n + 1, new.ht, new.ct,
                      Append(hts_list, expand_dims(new.ht)), Wh, recurrent_bias)

lstm_update(x, init_h, init_c, kernel, recurrent_kernel, bias, recurrent_bias) ==
    LET x_shape == x.shape
        batch_shape == DropLast(x_shape, 2)
        timesteps == x_shape[Len(x_shape) - 1]
        input_channels == x_shape[Len(x_shape)]
        x_flat == reshape(x, <<-1, input_channels>>)
        Wi == kernel
        Wi_x == reshape(add_optional(matmul(x_flat, Wi), bias),
                        batch_shape \o <<timesteps, -1>>)
        Wii_x == split(Wi_x, 4, 1)
        Wif_x == split(Wi_x, 4, 2)
        Wig_x == split(Wi_x, 4, 3)
        Wio_x == split(Wi_x, 4, 4)
        Wh == recurrent_kernel
        end == lstm_loop(zip4(unstack(Wii_x), unstack(Wif_x), unstack(Wig_x),
                              unstack(Wio_x)),
                         1, init_h, init_c, <<>>, Wh, recurrent_bias)
    IN [hs |-> concat(end.hts_list), c |-> end.ct]

\* Inputs of the documented shapes: x [batch_shape, t, in], init_h and init_c
\* [batch_shape, out], kernel [in, 4 x out], recurrent_kernel [out, 4 x out],
\* the biases [4 x out] or None; with no batch axis or one.
LstmBatchShapes == {<<>>, <<2>>}

LstmInputs ==
    { [x |-> InputArray(1, b \o <<t, fi>>),
       init_h |-> InputArray(2, b \o <<fo>>),
       init_c |-> InputArray(3, b \o <<fo>>),
       kernel |-> InputArray(4, <<fi, 4 * fo>>),
       recurrent_kernel |-> InputArray(5, <<fo, 4 * fo>>),
       bias |-> IF hasBias THEN Given(InputArray(6, <<4 * fo>>)) ELSE Absent,
       recurrent_bias |-> IF hasRBias THEN Given(InputArray(7, <<4 * fo>>)) ELSE Absent] :
        b \in LstmBatchShapes, t \in 1..MaxT, fi \in 1..MaxFeat, fo \in 1..MaxFeat,
        hasBias \in BOOLEAN, hasRBias \in BOOLEAN }

InitLstm ==
    /\ framework = "numpy"
    /\ calls = <<>>
    /\ op = "none"
    /\ ret = None
    /\ args \in LstmInputs

LstmUpdate ==
    /\ op = "none"
    /\ op' = "lstm_update"
    /\ ret' = lstm_update(args.x, args.init_h, args.init_c, args.kernel,
                          args.recurrent_kernel, args.bias, args.recurrent_bias)
    /\ UNCHANGED <<framework, calls, args>>

NextLstm == LstmUpdate

SpecLstm == InitLstm /\ [][NextLstm]_vars

(***************************************************************************)
(* C6: lstm_update returns (hs, c) where hs has t entries along its axis   *)
(* before last, entry i being the hidden state after step i of the LSTM    *)
(* recurrence                                                              *)
(*   i, f, o = sigmoid(x_t Wi + b + h Wh + rb), g = tanh(...),             *)
(*   c' = f * c + i * g,  h' = o * tanh(c'),                               *)
(* run from (init_h, init_c), each step on the state the step before left, *)
(* and c is the cell state after step t.                                   *)
(***************************************************************************)
RECURSIVE RefSum(_)
RefSum(terms) ==
    IF Len(terms) = 1 THEN terms[1] ELSE TAdd(RefSum(Front(terms)), Last(terms))

\* Unit j of gate g (1 input, 2 forget, 3 cell, 4 output) before its
\* nonlinearity, for batch element b at step t with previous hidden state h.
RefGate(a, b, t, g, j, h) ==
    LET fi == Last(a.x.shape)
        fo == Last(a.init_h.shape)
        col == (g - 1) * fo + j
        fromX == RefSum([k \in 1..fi |->
                     TMul(a.x.data[b \o <<t - 1, k - 1>>], a.kernel.data[<<k - 1, col>>])])
        fromH == RefSum([k \in 1..fo |->
                     TMul(h[k], a.recurrent_kernel.data[<<k - 1, col>>])])
    IN TAdd(IF exists(a.bias) THEN TAdd(fromX, a.bias[1].data[<<col>>]) ELSE fromX,
            IF exists(a.recurrent_bias)
            THEN TAdd(fromH, a.recurrent_bias[1].data[<<col>>]) ELSE fromH)

\* The state of batch element b after t steps: h[j], c[j] for unit j = 1..out.
RECURSIVE RefState(_, _, _)
RefState(a, b, t) ==
    LET fo == Last(a.init_h.shape)
    IN IF t = 0
       THEN [h |-> [j \in 1..fo |-> a.init_h.data[b \o <<j - 1>>]],
             c |-> [j \in 1..fo |-> a.init_c.data[b \o <<j - 1>>]]]
       ELSE LET prev == RefState(a, b, t - 1)
                c == [j \in 1..fo |->
                        TAdd(TMul(TSigmoid(RefGate(a, b, t, 2, j - 1, prev.h)), prev.c[j]),
                             TMul(TSigmoid(RefGate(a, b, t, 1, j - 1, prev.h)),
                                  TTanh(RefGate(a, b, t, 3, j - 1, prev.h))))]
            IN [h |-> [j \in 1..fo |->
                          TMul(TSigmoid(RefGate(a, b, t, 4, j - 1, prev.h)), TTanh(c[j]))],
                c |-> c]

C6_LstmUnrolls ==
    op = "lstm_update" =>
        LET batch == DropLast(args.x.shape, 2)
            t == args.x.shape[Len(args.x.shape) - 1]
            fo == Last(args.init_h.shape)
        IN /\ ret.hs.shape = batch \o <<t, fo>>
           /\ ret.c.shape = batch \o <<fo>>
           /\ DOMAIN ret.hs.data = Indices(ret.hs.shape)
           /\ DOMAIN ret.c.data = Indices(ret.c.shape)
           /\ \A b \in Indices(batch) :
                 /\ \A i \in 1..t :
                       LET s == RefState(args, b, i)
                       IN \A j \in 1..fo : ret.hs.data[b \o <<i - 1, j - 1>>] = s.h[j]
                 /\ LET s == RefState(args, b, t)
                    IN \A j \in 1..fo : ret.c.data[b \o <<j - 1>>] = s.c[j]

\* Two timesteps, a batch of two, both biases: hs holds two hidden states per
\* batch element.
C6_Witness ==
    /\ op = "lstm_update"
    /\ args.x.shape = <<2, 2, 1>>
    /\ exists(args.bias)
    /\ exists(args.recurrent_bias)
    /\ ret.hs.shape = <<2, 2, 2>>
    /\ ret.c.shape = <<2, 2>>
    /\ ret.hs.data[<<1, 0, 0>>] # ret.hs.data[<<1, 1, 0>>]

(***************************************************************************)
(* multi_head_attention (layers.py).  The arrays and the caller's          *)
(* functions are unknowns: a value is the expression that produced it, a   *)
(* sequence of tokens.                                                     *)
(***************************************************************************)
Apply(name, argument) == <<name, "(">> \o argument \o <<")">>

\* A value that is one array, a tuple of arrays or a list of arrays.
ArrayValue(t) == [kind |-> "array", items |-> <<t>>]
TupleValue(ts) == [kind |-> "tuple", items |-> ts]
ListValue(ts) == [kind |-> "list", items |-> ts]

\* The expression of a value handed on as one argument.
AsTerm(val) ==
    IF val.kind = "array" THEN val.items[1]
    ELSE Apply(val.kind, val.items[1] \o <<",">> \o val.items[2])

\* An optional argument as the callee sees it.
OrNone(a) == IF exists(a) THEN a[1] ELSE <<None>>

\* fn(argument, v=variables) for a function of the caller: the call and the
\* value it returns, an array or a pair as the function is written.
CallFn(role, fn, argument, variables) ==
    LET made == [fn |-> role, args |-> <<argument, OrNone(variables)>>]
        out == Apply(role, argument \o <<",", "v=">> \o OrNone(variables))
    IN [made |-> <<made>>,
        ret |-> IF fn.returns = "tuple"
                THEN TupleValue(<<out \o <<"[0]">>, out \o <<"[1]">>>>)
                ELSE ArrayValue(out)]

\* ivy.default(context, x)
default(a, b) == IF exists(a) THEN a[1] ELSE b

\* ivy.split(t, 2, -1): the two halves, in the sequence type of the backend
\* (sequenceKind: "list" or "tuple").
ivy_split(t, sequenceKind) ==
    [kind |-> sequenceKind,
     items |-> <<Apply("split", t) \o <<"[0]">>, Apply("split", t) \o <<"[1]">>>>]

einops_rearrange(t, pattern) == Apply("rearrange", t \o <<",", pattern>>)
einops_repeat(t, pattern) == Apply("repeat", t \o <<",", pattern>>)

\* scaled_dot_product_attention(q, k, v, scale, mask), as a call.
sdpa_call(q, k, v, scale, mask) ==
    [made |-> <<[fn |-> "scaled_dot_product_attention", args |-> <<q, k, v, scale, mask>>]>>,
     ret |-> Apply("scaled_dot_product_attention",
                   q \o <<",">> \o k \o <<",">> \o v \o <<",">> \o scale \o <<",">> \o mask)]

\* to_kv_fn called without its variables.
mha_keys_values_without_v(context, to_kv_fn, to_kv_v, sequenceKind) ==
    IF exists(to_kv_fn) THEN CallFn("to_kv_fn", to_kv_fn[1], context, Absent)
    ELSE [made |-> <<>>, ret |-> ivy_split(context, sequenceKind)]

\* kv = to_kv_fn(context, v=to_kv_v) if given, else ivy.split(context, 2, -1)
mha_keys_values(context, to_kv_fn, to_kv_v, sequenceKind) ==
    IF exists(to_kv_fn) THEN CallFn("to_kv_fn", to_kv_fn[1], context, to_kv_v)
    ELSE [made |-> <<>>, ret |-> ivy_split(context, sequenceKind)]

multi_head_attention(x, scale, num_heads, context, mask, to_q_fn, to_kv_fn, to_out_fn, to_q_v, to_kv_v, to_out_v, sequenceKind) ==
    LET qcall == IF exists(to_q_fn) THEN CallFn("to_q_fn", to_q_fn[1], x, to_q_v)
                 ELSE [made |-> <<>>, ret |-> ArrayValue(x)]
        q == AsTerm(qcall.ret)
        ctx == default(context, x)
        kvcall == mha_keys_values(ctx, to_kv_fn, to_kv_v, sequenceKind)
        kv == kvcall.ret
        pair == IF kv.kind = "tuple" THEN kv.items
                ELSE ivy_split(AsTerm(kv), sequenceKind).items
        k == pair[1]
        v == pair[2]
        qh == einops_rearrange(q, "... n (h f) -> ... h n f")
        kh == einops_rearrange(k, "... n (h f) -> ... h n f")
        vh == einops_rearrange(v, "... n (h f) -> ... h n f")
        maskh == IF exists(mask) THEN einops_repeat(mask[1], "... q k -> ... h q k")
                 ELSE <<None>>
        attn == sdpa_call(qh, kh, vh, scale, maskh)
        sdpa == einops_rearrange(attn.ret, "... h q f -> ... q (h f)")
        outcall == IF exists(to_out_fn) THEN CallFn("to_out_fn", to_out_fn[1], sdpa, to_out_v)
                   ELSE [made |-> <<>>, ret |-> ArrayValue(sdpa)]
    IN [made |-> qcall.made \o kvcall.made \o attn.made \o outcall.made,
        ret |-> outcall.ret]

OptionalOf(S) == {Absent} \cup { Given(v) : v \in S }

MhaInputs ==
    [x : {<<"x">>}, scale : {<<"scale">>}, num_heads : {<<"num_heads">>},
     context : OptionalOf({<<"context">>}),
     mask : OptionalOf({<<"mask">>}),
     to_q_fn : OptionalOf({[returns |-> "array"]}),
     to_kv_fn : OptionalOf({[returns |-> "array"], [returns |-> "tuple"]}),
     to_out_fn : OptionalOf({[returns |-> "array"]}),
     to_q_v : OptionalOf({<<"to_q_v">>}),
     to_kv_v : OptionalOf({<<"to_kv_v">>}),
     to_out_v : OptionalOf({<<"to_out_v">>}),
     sequenceKind : {"list", "tuple"}]

InitMha ==
    /\ framework = "numpy"
    /\ calls = <<>>
    /\ op = "none"
    /\ ret = None
    /\ args \in MhaInputs

MultiHeadAttention ==
    /\ op = "none"
    /\ LET r == multi_head_attention(args.x, args.scale, args.num_heads, args.context,
                                     args.mask, args.to_q_fn, args.to_kv_fn, args.to_out_fn,
                                     args.to_q_v, args.to_kv_v, args.to_out_v,
                                     args.sequenceKind)
       IN /\ calls' = calls \o r.made
          /\ ret' = r.ret
    /\ op' = "multi_head_attention"
    /\ UNCHANGED <<framework, args>>

NextMha == MultiHeadAttention

SpecMha == InitMha /\ [][NextMha]_vars

(***************************************************************************)
(* C7: in multi_head_attention, with context None the keys and values      *)
(* handed to the attention come from x (what to_kv_fn is called on, or     *)
(* what is split, is x); without to_q_fn the queries are x itself (only    *)
(* rearranged into heads); without to_out_fn the result is the attention   *)
(* output recombined and nothing more; each of to_q_fn, to_kv_fn and       *)
(* to_out_fn that is supplied is called exactly once, with to_q_v,         *)
(* to_kv_v, to_out_v respectively as v, and one that is not supplied is    *)
(* never called.                                                           *)
(***************************************************************************)
CallsOf(fn) == { i \in 1..Len(calls) : calls[i].fn = fn }

Mentions(term, token) == \E i \in 1..Len(term) : term[i] = token

C7_AttentionWiring ==
    op = "multi_head_attention" =>
        /\ Cardinality(CallsOf("scaled_dot_product_attention")) = 1
        /\ LET attn == calls[CHOOSE i \in CallsOf("scaled_dot_product_attention") : TRUE]
               q == attn.args[1]
               k == attn.args[2]
               v == attn.args[3]
           IN /\ ~exists(args.context) =>
                    /\ Mentions(k, "x") /\ ~Mentions(k, "context")
                    /\ Mentions(v, "x") /\ ~Mentions(v, "context")
                    /\ \A i \in CallsOf("to_kv_fn") : calls[i].args[1] = args.x
              /\ ~exists(args.to_q_fn) =>
                    q = einops_rearrange(args.x, "... n (h f) -> ... h n f")
              /\ ~exists(args.to_out_fn) =>
                    /\ ret.kind = "array"
                    /\ ret.items[1] =
                         einops_rearrange(
                             Apply("scaled_dot_product_attention",
                                   q \o <<",">> \o k \o <<",">> \o v \o <<",">>
                                   \o attn.args[4] \o <<",">> \o attn.args[5]),
                             "... h q f -> ... q (h f)")
        /\ \A role \in {"to_q_fn", "to_kv_fn", "to_out_fn"} :
              LET variables == CASE role = "to_q_fn" -> args.to_q_v
                                 [] role = "to_kv_fn" -> args.to_kv_v
                                 [] role = "to_out_fn" -> args.to_out_v
              IN IF exists(args[role])
                 THEN /\ Cardinality(CallsOf(role)) = 1
                      /\ \A i \in CallsOf(role) : calls[i].args[2] = OrNone(variables)
                 ELSE CallsOf(role) = {}

\* All three functions supplied with their variables and no context: three
\* calls around the attention, to_kv_fn on x with to_kv_v.
C7_Witness ==
    /\ op = "multi_head_attention"
    /\ ~exists(args.context)
    /\ Len(calls) = 4
    /\ calls[1] = [fn |-> "to_q_fn", args |-> <<<<"x">>, <<"to_q_v">>>>]
    /\ calls[2] = [fn |-> "to_kv_fn", args |-> <<<<"x">>, <<"to_kv_v">>>>]
    /\ calls[3].fn = "scaled_dot_product_attention"
    /\ calls[4].fn = "to_out_fn"
    /\ calls[4].args[2] = <<"to_out_v">>

(***************************************************************************)
(* dropout (layers.py).  Numbers are exact rationals n/d with d > 0.       *)
(***************************************************************************)
ProbSteps == 4

Rat(n, d) == [n |-> n, d |-> d]
RInt(k) == Rat(k, 1)
RLess(a, b) == a.n * b.d < b.n * a.d
REq(a, b) == a.n * b.d = b.n * a.d
RSub(a, b) == Rat(a.n * b.d - b.n * a.d, a.d * b.d)
RMul(a, b) == Rat(a.n * b.n, a.d * b.d)
\* a / b: Python raises ZeroDivisionError when b is 0.
RDiv(a, b) ==
    IF b.n = 0 THEN Raises("ZeroDivisionError")
    ELSE Returns(IF b.n > 0 THEN Rat(a.n * b.d, a.d * b.n) ELSE Rat(-(a.n * b.d), -(a.d * b.n)))

\* ivy.where(condition, a, b), elementwise on arrays of one shape.
where(cond, a, b) ==
    [shape |-> a.shape,
     data |-> [i \in Indices(a.shape) |-> IF cond.data[i] THEN a.data[i] ELSE b.data[i]]]

zeros_like(x) == [shape |-> x.shape, data |-> [i \in Indices(x.shape) |-> RInt(0)]]

less_scalar(u, p) == [shape |-> u.shape, data |-> [i \in Indices(u.shape) |-> RLess(u.data[i], p)]]

scale_by(x, f) == [shape |-> x.shape, data |-> [i \in Indices(x.shape) |-> RMul(x.data[i], f)]]

\* uniform is what ivy.random_uniform(shape=x.shape) drew.
dropout(x, prob, scale, uniform) ==
    LET masked == where(less_scalar(uniform, prob), zeros_like(x), x)
        factor == RDiv(RInt(1), RSub(RInt(1), prob))
    IN IF ~scale THEN Returns(masked)
       ELSE IF ~Ok(factor) THEN factor
       ELSE Returns(scale_by(masked, factor.value))

DropoutShapes == {<<0>>, <<1>>, <<2>>, <<2, 1>>}

DropoutElements == {RInt(-1), RInt(0), RInt(2)}

\* Samples of a uniform distribution on [0, 1), probabilities in [0, 1].
UniformSamples == { Rat(k, ProbSteps) : k \in 0..(ProbSteps - 1) }
Probabilities == { Rat(k, ProbSteps) : k \in 0..ProbSteps }

DropoutInputs ==
    UNION { [x : ArraysOf(sh, DropoutElements), prob : Probabilities, scale : BOOLEAN,
             uniform : ArraysOf(sh, UniformSamples)] : sh \in DropoutShapes }

InitDropout ==
    /\ framework = "numpy"
    /\ calls = <<>>
    /\ op = "none"
    /\ ret = None
    /\ args \in DropoutInputs

Dropout ==
    /\ op = "none"
    /\ op' = "dropout"
    /\ ret' = dropout(args.x, args.prob, args.scale, args.uniform)
    /\ UNCHANGED <<framework, calls, args>>

NextDropout == Dropout

SpecDropout == InitDropout /\ [][NextDropout]_vars

(***************************************************************************)
(* C8: dropout returns an array of the shape of x whose element i is zero  *)
(* if the uniform sample of i is less than prob and otherwise x[i] times   *)
(* 1/(1-prob) when scale is true, x[i] itself when it is false.            *)
(***************************************************************************)
DropoutElementsAsClaimed ==
    /\ Ok(ret)
    /\ ret.value.shape = args.x.shape
    /\ DOMAIN ret.value.data = Indices(args.x.shape)
    /\ \A i \in Indices(args.x.shape) :
          IF RLess(args.uniform.data[i], args.prob)
          THEN ret.value.data[i].n = 0
          ELSE IF args.scale
          THEN REq(RMul(ret.value.data[i], RSub(RInt(1), args.prob)), args.x.data[i])
          ELSE REq(ret.value.data[i], args.x.data[i])

C8_DropoutElements ==
    op = "dropout" => DropoutElementsAsClaimed

\* What does hold: the same, for every call but those with prob = 1 and scale.
C8_DropoutElementsBelowOne ==
    (op = "dropout" /\ ~(args.scale /\ REq(args.prob, RInt(1)))) => DropoutElementsAsClaimed

(***************************************************************************)
(* jax.numpy element-wise operators on integer arrays, and the frontend    *)
(* DeviceArray that wraps an array and forwards its operators              *)
(* (test_jax_devicearray.py).                                              *)
(***************************************************************************)
IntDTypes == {"int8", "uint8"}

\* The least and the greatest value of a dtype.
Lo(dtype) == IF dtype = "int8" THEN -128 ELSE 0
Hi(dtype) == IF dtype = "int8" THEN 127 ELSE 255

\* The number of values of a dtype.
Cardinal(dtype) == Hi(dtype) - Lo(dtype) + 1

\* The value of dtype congruent to v modulo the number of its values.
Wrap(dtype, v) == ((v - Lo(dtype)) % Cardinal(dtype)) + Lo(dtype)

jnp_array(a, dtype) == [dtype |-> dtype, shape |-> a.shape, data |-> a.data]

\* An array of the shape of x with the given dtype and elements.
array_like(x, dtype, data) == [dtype |-> dtype, shape |-> x.shape, data |-> data]

jnp_positive(x) == array_like(x, x.dtype, [i \in Indices(x.shape) |-> x.data[i]])
jnp_negative(x) == array_like(x, x.dtype, [i \in Indices(x.shape) |-> Wrap(x.dtype, -x.data[i])])
jnp_abs(x) ==
    array_like(x, x.dtype,
               [i \in Indices(x.shape) |-> Wrap(x.dtype, IF x.data[i] < 0 THEN -x.data[i] ELSE x.data[i])])
jnp_equal(x, y) == array_like(x, "bool", [i \in Indices(x.shape) |-> x.data[i] = y.data[i]])
jnp_not_equal(x, y) == array_like(x, "bool", [i \in Indices(x.shape) |-> x.data[i] /= y.data[i]])
jnp_less(x, y) == array_like(x, "bool", [i \in Indices(x.shape) |-> x.data[i] < y.data[i]])
jnp_less_equal(x, y) == array_like(x, "bool", [i \in Indices(x.shape) |-> x.data[i] <= y.data[i]])
jnp_greater(x, y) == array_like(x, "bool", [i \in Indices(x.shape) |-> x.data[i] > y.data[i]])
jnp_greater_equal(x, y) == array_like(x, "bool", [i \in Indices(x.shape) |-> x.data[i] >= y.data[i]])

DeviceArray(x) == [data |-> x]

__pos__(self) == jnp_positive(self.data)
__neg__(self) == jnp_negative(self.data)
__abs__(self) == jnp_abs(self.data)
__eq__(self, other) == jnp_equal(self.data, other.data)
__ne__(self, other) == jnp_not_equal(self.data, other.data)
__lt__(self, other) == jnp_less(self.data, other.data)
le_as_lt(self, other) == jnp_less(self.data, other.data)
__le__(self, other) == jnp_less_equal(self.data, other.data)
__gt__(self, other) == jnp_greater(self.data, other.data)
__ge__(self, other) == jnp_greater_equal(self.data, other.data)

EdgeValues(dtype) ==
    IF dtype = "int8" THEN {Lo(dtype), -1, 0, 1, Hi(dtype)} ELSE {0, 1, Hi(dtype)}

OperandShapes == {<<1>>, <<2>>}

TypedArrays(sh) ==
    UNION { { jnp_array(a, dtype) : a \in ArraysOf(sh, EdgeValues(dtype)) } : dtype \in IntDTypes }

DeviceArrayInputs ==
    UNION { [x : TypedArrays(sh), y : TypedArrays(sh)] : sh \in OperandShapes }

InitDeviceArray ==
    /\ framework = "jax"
    /\ calls = <<>>
    /\ op = "none"
    /\ ret = None
    /\ args \in DeviceArrayInputs

Operate(name, value) ==
    /\ op = "none"
    /\ op' = name
    /\ ret' = value
    /\ UNCHANGED <<framework, calls, args>>

Pos == Operate("__pos__", __pos__(DeviceArray(args.x)))
Neg == Operate("__neg__", __neg__(DeviceArray(args.x)))
Abs == Operate("__abs__", __abs__(DeviceArray(args.x)))
Eq == Operate("__eq__", __eq__(DeviceArray(args.x), DeviceArray(args.y)))
Ne == Operate("__ne__", __ne__(DeviceArray(args.x), DeviceArray(args.y)))
Lt == Operate("__lt__", __lt__(DeviceArray(args.x), DeviceArray(args.y)))
Le == Operate("__le__", __le__(DeviceArray(args.x), DeviceArray(args.y)))
Gt == Operate("__gt__", __gt__(DeviceArray(args.x), DeviceArray(args.y)))
Ge == Operate("__ge__", __ge__(DeviceArray(args.x), DeviceArray(args.y)))

NextDeviceArray ==
    \/ Pos
    \/ Neg
    \/ Abs
    \/ Eq
    \/ Ne
    \/ Lt
    \/ Le
    \/ Gt
    \/ Ge

SpecDeviceArray == InitDeviceArray /\ [][NextDeviceArray]_vars

InDType(dtype, v) == Lo(dtype) <= v /\ v <= Hi(dtype)

Congruent(a, b) == (a - b) % 256 = 0

(***************************************************************************)
(* C9: each DeviceArray operator returns, element for element, what the    *)
(* operator gives on jax.numpy arrays of the same data: +x is x, -x and    *)
(* abs(x) are the negation and the magnitude reduced into the dtype, and   *)
(* the six comparisons are the comparisons of the elements.                *)
(***************************************************************************)
C9_DeviceArrayMatchesJnp ==
    op \in {"__pos__", "__neg__", "__abs__", "__eq__", "__ne__", "__lt__", "__le__", "__gt__", "__ge__"} =>
        /\ ret.shape = args.x.shape
        /\ DOMAIN ret.data = Indices(args.x.shape)
        /\ \A i \in Indices(args.x.shape) :
              LET a == args.x.data[i]
                  b == args.y.data[i]
                  r == ret.data[i]
                  magnitude == IF a < 0 THEN 0 - a ELSE a
              IN /\ op = "__pos__" => r = a
                 /\ op = "__neg__" => InDType(args.x.dtype, r) /\ Congruent(r + a, 0)
                 /\ op = "__abs__" => InDType(args.x.dtype, r) /\ Congruent(r, magnitude)
                 /\ op = "__eq__" => (r <=> (a = b))
                 /\ op = "__ne__" => (r <=> ~(a = b))
                 /\ op = "__lt__" => (r <=> (a < b))
                 /\ op = "__le__" => (r <=> (a < b \/ a = b))
                 /\ op = "__gt__" => (r <=> (b < a))
                 /\ op = "__ge__" => (r <=> ~(a < b))

\* x <= y on int8 [-128, 1] and uint8 [255, 1]: [TRUE, TRUE].
C9_Witness ==
    /\ op = "__le__"
    /\ args.x.shape = <<2>>
    /\ args.x.dtype = "int8"
    /\ args.y.dtype = "uint8"
    /\ args.x.data[<<0>>] = Lo("int8") /\ args.x.data[<<1>>] = 1
    /\ args.y.data[<<0>>] = Hi("uint8") /\ args.y.data[<<1>>] = 1
    /\ ret.data[<<0>>] /\ ret.data[<<1>>]

(***************************************************************************)
(* ContainerWithGradients (container/gradients.py).  An instance is its    *)
(* set of attached method names and whether ContainerBase.__init__ has run *)
(* on it; a module is its set of members.                                  *)
(***************************************************************************)
GradientsMembers ==
    { [name |-> "variable", callable |-> TRUE],
      [name |-> "stop_gradient", callable |-> TRUE],
      [name |-> "execute_with_gradients", callable |-> TRUE],
      [name |-> "with_grads_stack", callable |-> FALSE] }

OtherMethods == {"clip", "matmul", "variable"}

\* ContainerBase.add_instance_methods(self, module): every function of the
\* module becomes a method of the instance.
add_instance_methods(self, module) ==
    [self EXCEPT !.methods = @ \cup { mem.name : mem \in { e \in module : e.callable } }]

\* ContainerBase.__init__(self).
ContainerBase_init(self) == [self EXCEPT !.initialised = TRUE]

CallOf(fn, arguments) == [fn |-> fn, args |-> arguments]

ContainerWithGradients_init_with_super(self, gradients) ==
    [self |-> add_instance_methods(ContainerBase_init(self), gradients),
     calls |-> <<CallOf("ContainerBase.__init__", <<"self">>),
                 CallOf("ContainerBase.add_instance_methods", <<"self", "gradients">>)>>]

\* ContainerWithGradients.__init__(self), gradients being the module that
\* "import ivy.functional.ivy.gradients as gradients" binds.
ContainerWithGradients_init(self, gradients) ==
    [self |-> add_instance_methods(self, gradients),
     calls |-> <<CallOf("ContainerBase.add_instance_methods", <<"self", "gradients">>)>>]

ContainerInputs ==
    [self : [methods : SUBSET OtherMethods, initialised : BOOLEAN],
     gradients : SUBSET GradientsMembers]

InitContainer ==
    /\ framework = "numpy"
    /\ calls = <<>>
    /\ op = "none"
    /\ ret = None
    /\ args \in ContainerInputs

Construct ==
    /\ op = "none"
    /\ op' = "__init__"
    /\ LET done == ContainerWithGradients_init(args.self, args.gradients)
       IN /\ ret' = done.self
          /\ calls' = calls \o done.calls
    /\ UNCHANGED <<framework, args>>

NextContainer == Construct

SpecContainer == InitContainer /\ [][NextContainer]_vars

FunctionsOf(module) == { n \in { e.name : e \in module } : [name |-> n, callable |-> TRUE] \in module }

(***************************************************************************)
(* C10: constructing a ContainerWithGradients makes exactly one call,      *)
(* ContainerBase.add_instance_methods(self, gradients), after which the    *)
(* instance has the functions of the gradients module as methods besides   *)
(* those it had, and ContainerBase.__init__ has not been run by it.        *)
(***************************************************************************)
C10_OnlyAttachesGradients ==
    op = "__init__" =>
        /\ Len(calls) = 1
        /\ calls[1].fn = "ContainerBase.add_instance_methods"
        /\ calls[1].args = <<"self", "gradients">>
        /\ ret.methods = args.self.methods \cup FunctionsOf(args.gradients)
        /\ ret.initialised = args.self.initialised

C10_Witness ==
    /\ op = "__init__"
    /\ args.self = [methods |-> {"clip"}, initialised |-> FALSE]
    /\ FunctionsOf(args.gradients) = {"variable", "stop_gradient", "execute_with_gradients"}
    /\ ret = [methods |-> {"clip", "variable", "stop_gradient", "execute_with_gradients"},
              initialised |-> FALSE]
    /\ Len(calls) = 1

(***************************************************************************)
(* scaled_dot_product_attention (layers.py).  An element is a whole number *)
(* of a unit: of one, or of the largest finite value of a floating dtype,  *)
(* which is kept as a unit of its own.  The softmax and the einsum that    *)
(* follows it are kept as the calls made, with the arrays they are given.  *)
(***************************************************************************)
FloatDTypes == {"float32", "float64"}

Num(n) == [coef |-> n, unit |-> "one"]

\* np.finfo(np.dtype(dtype)).max
finfo_max(dtype) == [coef |-> 1, unit |-> dtype]

\* a * b, one of the two being a number of ones.
Times(a, b) ==
    IF a.unit = "one" THEN [coef |-> a.coef * b.coef, unit |-> b.unit]
    ELSE [coef |-> a.coef * b.coef, unit |-> a.unit]

RECURSIVE SumTo(_, _)
SumTo(g, n) == IF n = 0 THEN 0 ELSE g[n - 1] + SumTo(g, n - 1)

\* ivy.einsum("... q f, ... k f -> ... q k", q, k)
einsum_qf_kf(q, k) ==
    LET n == Len(q.shape)
        batch == SubSeq(q.shape, 1, n - 2)
        feat == q.shape[n]
        shape == batch \o <<q.shape[n - 1], k.shape[n - 1]>>
    IN [dtype |-> q.dtype, shape |-> shape,
        data |-> [i \in Indices(shape) |->
                    LET b == SubSeq(i, 1, n - 2)
                    IN Num(SumTo([f \in 0..(feat - 1) |->
                                    q.data[b \o <<i[n - 1], f>>] * k.data[b \o <<i[n], f>>]],
                                 feat))]]

times_scalar(x, c) == array_like(x, x.dtype, [i \in Indices(x.shape) |-> Times(x.data[i], c)])

ones_like(x) == array_like(x, x.dtype, [i \in Indices(x.shape) |-> Num(1)])

negative(x) == array_like(x, x.dtype, [i \in Indices(x.shape) |-> Times(Num(-1), x.data[i])])

logical_not(m) == [shape |-> m.shape, data |-> [i \in Indices(m.shape) |-> ~m.data[i]]]

softmax(x, axis) == [fn |-> "softmax", x |-> x, axis |-> axis]

\* ivy.einsum("... q k, ... k f -> ... q f", attn, v)
einsum_qk_kf(attn, v) == [fn |-> "einsum", attn |-> attn, v |-> v]

sdpa_mask_not_negated(q, k, v, scale, mask) ==
    LET sim == times_scalar(einsum_qf_kf(q, k), Num(scale))
        masked ==
            IF exists(mask)
            THEN array_like(sim, sim.dtype,
                            where(mask[1],
                                  times_scalar(negative(ones_like(sim)), finfo_max(sim.dtype)),
                                  sim).data)
            ELSE sim
    IN einsum_qk_kf(softmax(masked, -1), v)

scaled_dot_product_attention(q, k, v, scale, mask) ==
    LET sim == times_scalar(einsum_qf_kf(q, k), Num(scale))
        masked ==
            IF exists(mask)
            THEN array_like(sim, sim.dtype,
                            where(logical_not(mask[1]),
                                  times_scalar(negative(ones_like(sim)), finfo_max(sim.dtype)),
                                  sim).data)
            ELSE sim
    IN einsum_qk_kf(softmax(masked, -1), v)

\* batch shape, number of queries, number of keys, feature dimension
AttentionDims ==
    { [batch |-> <<>>, q |-> 1, k |-> 1, f |-> 1],
      [batch |-> <<>>, q |-> 2, k |-> 1, f |-> 2],
      [batch |-> <<>>, q |-> 2, k |-> 2, f |-> 1],
      [batch |-> <<2>>, q |-> 1, k |-> 2, f |-> 1] }

QueryElements == {-1, 2}
KeyElements == {0, 3}
Scales == {1, 2}

Typed(arrays, dtype) == { array_like(a, dtype, a.data) : a \in arrays }

AttentionInputs ==
    UNION { UNION {
        [q : Typed(ArraysOf(d.batch \o <<d.q, d.f>>, QueryElements), dtype),
         k : Typed(ArraysOf(d.batch \o <<d.k, d.f>>, KeyElements), dtype),
         v : Typed(ArraysOf(d.batch \o <<d.k, d.f>>, {1}), dtype),
         scale : Scales,
         mask : {Absent} \cup { Given(m) : m \in ArraysOf(d.batch \o <<d.q, d.k>>, BOOLEAN) }]
        : dtype \in FloatDTypes } : d \in AttentionDims }

InitAttention ==
    /\ framework = "numpy"
    /\ calls = <<>>
    /\ op = "none"
    /\ ret = None
    /\ args \in AttentionInputs

ScaledDotProductAttention ==
    /\ op = "none"
    /\ op' = "scaled_dot_product_attention"
    /\ ret' = scaled_dot_product_attention(args.q, args.k, args.v, args.scale, args.mask)
    /\ UNCHANGED <<framework, calls, args>>

NextAttention == ScaledDotProductAttention

SpecAttention == InitAttention /\ [][NextAttention]_vars

\* The similarities of the call before any masking, and those given to softmax.
ScaledSimilarity == times_scalar(einsum_qf_kf(args.q, args.k), Num(args.scale))
SoftmaxInput == ret.attn.x

(***************************************************************************)
(* C11: the array handed to softmax has, where a mask is given and its     *)
(* entry is false, minus the largest finite value of the similarities'     *)
(* dtype, and everywhere else (mask entry true, or no mask at all) the     *)
(* scaled query-key similarity itself.                                     *)
(***************************************************************************)
C11_MaskedSimilarities ==
    op = "scaled_dot_product_attention" =>
        /\ ret.attn.fn = "softmax"
        /\ SoftmaxInput.shape = ScaledSimilarity.shape
        /\ \A i \in Indices(ScaledSimilarity.shape) :
              IF exists(args.mask) /\ ~args.mask[1].data[i]
              THEN SoftmaxInput.data[i] = [coef |-> -1, unit |-> args.q.dtype]
              ELSE SoftmaxInput.data[i] = ScaledSimilarity.data[i]

\* A 2 x 2 mask with a true and a false entry: one similarity kept (6 * 2),
\* one replaced.
C11_Witness ==
    /\ op = "scaled_dot_product_attention"
    /\ exists(args.mask)
    /\ args.q.shape = <<2, 1>>
    /\ args.k.shape = <<2, 1>>
    /\ args.scale = 2
    /\ args.mask[1].data[<<0, 0>>]
    /\ ~args.mask[1].data[<<1, 1>>]
    /\ args.q.data[<<0, 0>>] = 2
    /\ args.k.data[<<0, 0>>] = 3
    /\ SoftmaxInput.data[<<0, 0>>] = Num(12)
    /\ SoftmaxInput.data[<<1, 1>>] = [coef |-> -1, unit |-> args.q.dtype]
====
